---- MODULE Spec2Model ----
(***************************************************************************)
(* Model of src/charity_marketplace.py: the CharityMarketplace store over  *)
(* one SQLite database file.  Every public operation opens its own         *)
(* connection (sqlite3.connect) and runs its statements one at a time;     *)
(* callers are concurrent processes.  Currency amounts are exact cents.    *)
(*                                                                         *)
(* SQLite / sqlite3-module semantics used by the model:                    *)
(*  - a SELECT outside a transaction reads the committed file;             *)
(*  - the first INSERT/UPDATE of a connection opens a transaction and      *)
(*    takes the file's single write lock; a second writer waits and, when  *)
(*    the busy timeout expires, gets "database is locked";                 *)
(*  - the changes of an open transaction are private to the connection     *)
(*    until commit, which publishes them atomically; a rollback (the       *)
(*    `with` block left by an exception, or journal recovery after a       *)
(*    crash) drops them.                                                    *)
(***************************************************************************)
EXTENDS Integers, Sequences, FiniteSets, TLC

\* ---------------------------------------------------------------- bounds
NumProcs == 2
MaxCharities == 2
MaxDonations == 2
MaxAmount == 1
MaxClock == 0
MaxStamp == 1

Procs == 1..NumProcs
None == 0
\* an id that uuid4 never issues: the caller's unknown / mistyped id
BadId == 0

CATEGORIES == {"education", "environment", "health", "housing", "animals", "arts"}

\* inputs the callers draw from
CategoryInputs == {"education", "sports"}
Names == {"Books for All"}
Descriptions == {"..."}
Goals == {1000}
Donors == {"Alice"}
Messages == {""}
Amounts == (0 - MaxAmount)..MaxAmount

VARIABLES
    db,      \* the committed database file: [charities, donations], rows in rowid order
    lock,    \* the process holding SQLite's write lock, or None
    tx,      \* tx[p]: the uncommitted pages of p's open transaction, or NoTx
    pc,      \* pc[p]: the statement p's operation is about to run
    loc,     \* loc[p]: the arguments and locals of p's operation
    ret,     \* ret[p]: what the operation returned or raised
    clock,   \* datetime.utcnow()
    acked,   \* ledger: per charity, the donations whose commit succeeded
    conn     \* conn[p]: the sqlite3 connection of p's operation: "none", "open", "closed"
\* loc[p].raced is a history flag: another donation to the same charity was
\* committed between p's existence check and p's insert

vars == <<db, lock, tx, pc, loc, ret, clock, acked, conn>>

\* ---------------------------------------------------------------- rows
Charity(id, name, category, description, goal_usd, raised_usd, verified, created_at) ==
    [id |-> id, name |-> name, category |-> category, description |-> description,
     goal_usd |-> goal_usd, raised_usd |-> raised_usd, verified |-> verified,
     created_at |-> created_at]

Donation(id, charity_id, donor, amount_usd, message, ts) ==
    [id |-> id, charity_id |-> charity_id, donor |-> donor, amount_usd |-> amount_usd,
     message |-> message, ts |-> ts]

EmptyDb == [charities |-> <<>>, donations |-> <<>>]
NoTx == [charities |-> <<>>, donations |-> <<>>, open |-> FALSE]
OpenTx(d) == [charities |-> d.charities, donations |-> d.donations, open |-> TRUE]
Pages(t) == [charities |-> t.charities, donations |-> t.donations]

NoArgs == [op |-> "", id |-> 0, charity_id |-> 0, name |-> "", category |-> "",
           description |-> "", goal_usd |-> 0, donor |-> "", amount_usd |-> 0,
           message |-> "", now |-> 0, raced |-> FALSE, sort_by |-> "",
           row |-> [id |-> 0]]
NoRow == [id |-> 0]
NoRet == [err |-> "", val |-> NoRow]
Ok(v) == [err |-> "", val |-> v]
\* raise ValueError(...) / sqlite3.OperationalError: the message kind
Raise(kind) == [err |-> kind, val |-> NoRow]

\* ---------------------------------------------------------------- statements
\* the database a statement of p's connection works on
View(p) == IF tx[p].open THEN Pages(tx[p]) ELSE db

CharityIds(d) == {d.charities[i].id : i \in DOMAIN d.charities}
DonationIds(d) == {d.donations[i].id : i \in DOMAIN d.donations}

\* str(uuid.uuid4()): an id no row and no running operation has
InFlight(o) == {p \in Procs : pc[p] \notin {"idle", "done"} /\ loc[p].op = o}
UsedIds(o, committed) == committed \cup {loc[p].id : p \in InFlight(o)}
Uuid4(used) == CHOOSE n \in 1..(Cardinality(used) + 1) : n \notin used

\* datetime.utcnow(): does not go back; two calls may read the same instant
Utcnow == {clock} \cup (IF clock < MaxClock THEN {clock + 1} ELSE {})

\* mutant: the category check is missing
AnyCategory(category) == TRUE
ValidCategory(category) == category \in CATEGORIES

\* SELECT ... FROM charities WHERE id = ?  (fetchone)
SelectCharity(d, cid) ==
    IF \E i \in DOMAIN d.charities : d.charities[i].id = cid
    THEN d.charities[CHOOSE i \in DOMAIN d.charities : d.charities[i].id = cid]
    ELSE NoRow
\* mutant: the existence check is missing
FoundAlways(row) == TRUE
\* `if not charity`
Found(row) == row # NoRow

\* mutant: a UNIQUE(name) table with INSERT OR REPLACE, the row of the same
\* name is replaced
InsertCharityUniqueName(d, row) ==
    IF \E i \in DOMAIN d.charities : d.charities[i].name = row.name
    THEN [d EXCEPT !.charities =
            [i \in DOMAIN @ |-> IF @[i].name = row.name THEN row ELSE @[i]]]
    ELSE [d EXCEPT !.charities = Append(@, row)]
\* INSERT INTO charities ...
InsertCharity(d, row) == [d EXCEPT !.charities = Append(@, row)]
\* INSERT INTO donations ...
InsertDonation(d, row) == [d EXCEPT !.donations = Append(@, row)]
\* mutants of the UPDATE: no WHERE clause; SET raised_usd = ?; a REPLACE that
\* rewrites the row with the column defaults
UpdateRaisedAll(d, cid, amount) ==
    [d EXCEPT !.charities = [i \in DOMAIN @ |-> [@[i] EXCEPT !.raised_usd = @ + amount]]]
UpdateRaisedSet(d, cid, amount) ==
    [d EXCEPT !.charities =
        [i \in DOMAIN @ |-> IF @[i].id = cid
                            THEN [@[i] EXCEPT !.raised_usd = amount]
                            ELSE @[i]]]
UpdateRaisedReplace(d, cid, amount) ==
    [d EXCEPT !.charities =
        [i \in DOMAIN @ |-> IF @[i].id = cid
                            THEN [@[i] EXCEPT !.raised_usd = @ + amount, !.verified = FALSE]
                            ELSE @[i]]]
\* UPDATE charities SET raised_usd = raised_usd + ? WHERE id = ?
UpdateRaised(d, cid, amount) ==
    [d EXCEPT !.charities =
        [i \in DOMAIN @ |-> IF @[i].id = cid
                            THEN [@[i] EXCEPT !.raised_usd = @ + amount]
                            ELSE @[i]]]
\* mutants of the UPDATE: verified = NOT verified; an upsert that creates the
\* row; no WHERE clause
UpdateVerifiedAll(d, cid) ==
    [d EXCEPT !.charities = [i \in DOMAIN @ |-> [@[i] EXCEPT !.verified = TRUE]]]
UpdateVerifiedToggle(d, cid) ==
    [d EXCEPT !.charities =
        [i \in DOMAIN @ |-> IF @[i].id = cid
                            THEN [@[i] EXCEPT !.verified = ~@]
                            ELSE @[i]]]
UpdateVerifiedUpsert(d, cid) ==
    IF \E i \in DOMAIN d.charities : d.charities[i].id = cid
    THEN [d EXCEPT !.charities =
            [i \in DOMAIN @ |-> IF @[i].id = cid
                                THEN [@[i] EXCEPT !.verified = TRUE]
                                ELSE @[i]]]
    ELSE [d EXCEPT !.charities =
            Append(@, Charity(cid, "", "education", "", 0, 0, TRUE, 0))]
\* UPDATE charities SET verified = 1 WHERE id = ?
UpdateVerified(d, cid) ==
    [d EXCEPT !.charities =
        [i \in DOMAIN @ |-> IF @[i].id = cid
                            THEN [@[i] EXCEPT !.verified = TRUE]
                            ELSE @[i]]]

\* SELECT ... FROM donations WHERE id = ?  (fetchone)
SelectDonation(d, did) ==
    IF \E i \in DOMAIN d.donations : d.donations[i].id = did
    THEN d.donations[CHOOSE i \in DOMAIN d.donations : d.donations[i].id = did]
    ELSE NoRow

\* COALESCE(SUM(amount_usd), 0) over the donations, in rowid order
RECURSIVE SumAmountUsd(_)
SumAmountUsd(rows) ==
    IF rows = <<>> THEN 0 ELSE Head(rows).amount_usd + SumAmountUsd(Tail(rows))

\* sort_field of get_charities: raised_usd for "raised", created_at otherwise
SortKey(row, sort_by) == IF sort_by = "raised" THEN row.raised_usd ELSE row.created_at

\* ORDER BY <key> DESC: every arrangement of the rows with non-increasing
\* keys; SQL leaves the order of rows with equal keys open
Arrangements(rows) ==
    LET n == Len(rows)
    IN  {[i \in 1..n |-> rows[f[i]]] :
            f \in {g \in [1..n -> 1..n] : \A i, j \in 1..n : g[i] = g[j] => i = j}}
\* mutant: ORDER BY <key> ASC
OrderByAsc(rows, sort_by) ==
    {s \in Arrangements(rows) :
        \A i \in 1..(Len(s) - 1) : SortKey(s[i], sort_by) <= SortKey(s[i + 1], sort_by)}
OrderByDesc(rows, sort_by) ==
    {s \in Arrangements(rows) :
        \A i \in 1..(Len(s) - 1) : SortKey(s[i], sort_by) >= SortKey(s[i + 1], sort_by)}

\* mutant: the WHERE clause is missing
WhereAny(rows, category) == rows
\* WHERE category = ?
WhereCategory(rows, category) == SelectSeq(rows, LAMBDA r : r.category = category)

\* mutant: SELECT id, name, MAX(raised_usd) FROM charities, an aggregate
\* returns one row on an empty table
TopCharityRowsAggregate(d) ==
    IF d.charities = <<>> THEN {[id |-> 0, name |-> "", raised_usd |-> 0]}
    ELSE {[id |-> s[1].id, name |-> s[1].name, raised_usd |-> s[1].raised_usd] :
            s \in OrderByDesc(d.charities, "raised")}
\* SELECT id, name, raised_usd FROM charities ORDER BY raised_usd DESC LIMIT 1
\* (fetchone): the rows the query may return
TopCharityRows(d) ==
    IF d.charities = <<>> THEN {NoRow}
    ELSE {[id |-> s[1].id, name |-> s[1].name, raised_usd |-> s[1].raised_usd] :
            s \in OrderByDesc(d.charities, "raised")}

\* round(x, 2) and the :.2f format, on amounts held in cents: to the nearest
\* multiple of CentUnit
CentUnit == 1
\* mutant: round(x, 0), to whole dollars
Round0(x) == ((2 * x + 100 * CentUnit) \div (200 * CentUnit)) * (100 * CentUnit)
Round2(x) == ((2 * x + CentUnit) \div (2 * CentUnit)) * CentUnit

\* mutant: a store without a write lock
NoLock(p) == TRUE
\* the write lock is free (or already ours)
CanWrite(p) == lock \in {None, p}

\* ---------------------------------------------------------------- Init
Init ==
    /\ db = EmptyDb
    /\ lock = None
    /\ tx = [p \in Procs |-> NoTx]
    /\ pc = [p \in Procs |-> "idle"]
    /\ loc = [p \in Procs |-> NoArgs]
    /\ ret = [p \in Procs |-> NoRet]
    /\ clock = 0
    /\ acked = [c \in 1..MaxCharities |-> [n |-> 0, sum |-> 0]]
    /\ conn = [p \in Procs |-> "none"]

\* the labels whose statement is the `with sqlite3.connect(...)` line itself:
\* the operation has no connection before it runs
BeforeConnect == {"r_insert", "d_select", "v_update", "s_totals", "g_select", "rc_donation"}

\* leave the operation with a result.  Leaving the `with` block commits or
\* rolls back; it does not close the connection, and no statement of the
\* program does: the connection object is left to the runtime (Collect).
\* An operation that fails before connecting (pc = "idle") has no connection.
Done(p, r) ==
    /\ pc' = [pc EXCEPT ![p] = "done"]
    /\ ret' = [ret EXCEPT ![p] = r]
    /\ conn' = [conn EXCEPT ![p] = IF pc[p] = "idle" THEN @ ELSE "open"]

Goto(p, label) ==
    /\ pc' = [pc EXCEPT ![p] = label]
    /\ conn' = [conn EXCEPT ![p] = IF label \in BeforeConnect THEN @ ELSE "open"]
    /\ UNCHANGED ret

\* conn.commit(): publish the transaction and release the write lock
Commit(p) ==
    /\ db' = Pages(tx[p])
    /\ tx' = [tx EXCEPT ![p] = NoTx]
    /\ lock' = None

\* the first write statement: BEGIN, take the write lock, change private pages
Stage(p, d) ==
    /\ lock' = p
    /\ tx' = [tx EXCEPT ![p] = OpenTx(d)]
    /\ UNCHANGED db

\* ---------------------------------------------------------------- register_charity
RegisterCall(p, name, category, description, goal_usd) ==
    /\ pc[p] = "idle"
    /\ IF ~ValidCategory(category)
       THEN /\ Done(p, Raise("category"))
            /\ loc' = [loc EXCEPT ![p] = [NoArgs EXCEPT !.op = "register",
                                             !.category = category]]
            /\ UNCHANGED clock
       ELSE /\ Len(db.charities) + Cardinality(InFlight("register")) < MaxCharities
            /\ \E now \in Utcnow :
                 /\ clock' = now
                 /\ loc' = [loc EXCEPT ![p] =
                       [NoArgs EXCEPT !.op = "register",
                                      !.id = Uuid4(UsedIds("register", CharityIds(db))),
                                      !.name = name, !.category = category,
                                      !.description = description,
                                      !.goal_usd = goal_usd, !.now = now]]
            /\ Goto(p, "r_insert")
    /\ UNCHANGED <<db, lock, tx, acked>>

NewCharity(a) ==
    Charity(a.id, a.name, a.category, a.description, a.goal_usd, 0, FALSE, a.now)

RegisterInsert(p) ==
    /\ pc[p] = "r_insert"
    /\ CanWrite(p)
    /\ Stage(p, InsertCharity(View(p), NewCharity(loc[p])))
    /\ Goto(p, "r_commit")
    /\ UNCHANGED <<loc, clock, acked>>

RegisterCommit(p) ==
    /\ pc[p] = "r_commit"
    /\ Commit(p)
    /\ Done(p, Ok(NewCharity(loc[p])))
    /\ UNCHANGED <<loc, clock, acked>>

\* ---------------------------------------------------------------- donate
DonateCall(p, charity_id, donor, amount_usd, message) ==
    /\ pc[p] = "idle"
    /\ \/ charity_id = BadId
       \/ Len(db.donations) + Cardinality(InFlight("donate")) < MaxDonations
    /\ loc' = [loc EXCEPT ![p] =
           [NoArgs EXCEPT !.op = "donate",
                          !.id = Uuid4(UsedIds("donate", DonationIds(db))),
                          !.charity_id = charity_id, !.donor = donor,
                          !.amount_usd = amount_usd, !.message = message,
                          !.now = clock]]
    /\ Goto(p, "d_select")
    /\ UNCHANGED <<db, lock, tx, clock, acked>>

NewDonation(a) ==
    Donation(a.id, a.charity_id, a.donor, a.amount_usd, a.message, a.now)

DonateSelect(p) ==
    /\ pc[p] = "d_select"
    /\ IF ~Found(SelectCharity(View(p), loc[p].charity_id))
       THEN /\ Done(p, Raise("not found"))
            /\ UNCHANGED loc
       ELSE /\ Goto(p, "d_insert")
            /\ UNCHANGED loc
    /\ UNCHANGED <<db, lock, tx, clock, acked>>

\* mutant: a connection in autocommit mode, every statement is published at once
DonateInsertAutocommit(p) ==
    /\ pc[p] = "d_insert"
    /\ CanWrite(p)
    /\ db' = InsertDonation(db, NewDonation(loc[p]))
    /\ tx' = [tx EXCEPT ![p] = OpenTx(db')]
    /\ lock' = p
    /\ Goto(p, "d_update")
    /\ UNCHANGED <<loc, clock, acked>>

DonateInsert(p) ==
    /\ pc[p] = "d_insert"
    /\ CanWrite(p)
    /\ Stage(p, InsertDonation(View(p), NewDonation(loc[p])))
    /\ Goto(p, "d_update")
    /\ UNCHANGED <<loc, clock, acked>>

DonateUpdate(p) ==
    /\ pc[p] = "d_update"
    /\ tx' = [tx EXCEPT ![p] =
                 OpenTx(UpdateRaised(View(p), loc[p].charity_id, loc[p].amount_usd))]
    /\ Goto(p, "d_commit")
    /\ UNCHANGED <<db, lock, loc, clock, acked>>

DonateCommit(p) ==
    /\ pc[p] = "d_commit"
    /\ Commit(p)
    /\ acked' = [acked EXCEPT ![loc[p].charity_id] =
                    [n |-> @.n + 1, sum |-> @.sum + loc[p].amount_usd]]
    /\ Done(p, Ok(NewDonation(loc[p])))
    /\ loc' = [q \in Procs |->
                IF q # p /\ pc[q] = "d_insert" /\ loc[q].charity_id = loc[p].charity_id
                THEN [loc[q] EXCEPT !.raced = TRUE] ELSE loc[q]]
    /\ UNCHANGED clock

\* ---------------------------------------------------------------- verify_charity
VerifyCall(p, charity_id) ==
    /\ pc[p] = "idle"
    /\ loc' = [loc EXCEPT ![p] = [NoArgs EXCEPT !.op = "verify",
                                                !.charity_id = charity_id]]
    /\ Goto(p, "v_update")
    /\ UNCHANGED <<db, lock, tx, clock, acked>>

VerifyUpdate(p) ==
    /\ pc[p] = "v_update"
    /\ CanWrite(p)
    /\ Stage(p, UpdateVerified(View(p), loc[p].charity_id))
    /\ Goto(p, "v_commit")
    /\ UNCHANGED <<loc, clock, acked>>

VerifyCommit(p) ==
    /\ pc[p] = "v_commit"
    /\ Commit(p)
    /\ Goto(p, "v_select")
    /\ UNCHANGED <<loc, clock, acked>>

VerifySelect(p) ==
    /\ pc[p] = "v_select"
    /\ LET charity == SelectCharity(View(p), loc[p].charity_id)
       IN  IF ~Found(charity) THEN Done(p, Raise("not found"))
                              ELSE Done(p, Ok(charity))
    /\ UNCHANGED <<db, lock, tx, loc, clock, acked>>

\* ---------------------------------------------------------------- failures
\* the busy timeout expires while another connection holds the write lock:
\* sqlite3.OperationalError("database is locked"); the with block rolls back
Busy(p) ==
    /\ pc[p] \in {"r_insert", "d_insert", "v_update"}
    /\ ~CanWrite(p)
    /\ Done(p, Raise("locked"))
    /\ UNCHANGED <<db, lock, tx, loc, clock, acked>>

\* the calling process dies in the middle of an operation; the journal rolls
\* its open transaction back and the operating system drops the connection
Crash(p) ==
    /\ pc[p] \notin {"idle", "done"}
    /\ pc' = [pc EXCEPT ![p] = "idle"]
    /\ loc' = [loc EXCEPT ![p] = NoArgs]
    /\ ret' = [ret EXCEPT ![p] = NoRet]
    /\ tx' = [tx EXCEPT ![p] = NoTx]
    /\ lock' = IF lock = p THEN None ELSE lock
    /\ conn' = [conn EXCEPT ![p] = "none"]
    /\ UNCHANGED <<db, clock, acked>>

\* the caller takes the result and the calling process exits; the process
\* slot is free for the next call
Finish(p) ==
    /\ pc[p] = "done"
    /\ pc' = [pc EXCEPT ![p] = "idle"]
    /\ loc' = [loc EXCEPT ![p] = NoArgs]
    /\ ret' = [ret EXCEPT ![p] = NoRet]
    /\ conn' = [conn EXCEPT ![p] = "none"]
    /\ UNCHANGED <<db, lock, tx, clock, acked>>


\* ---------------------------------------------------------------- get_stats
StatsCall(p) ==
    /\ pc[p] = "idle"
    /\ loc' = [loc EXCEPT ![p] = [NoArgs EXCEPT !.op = "stats"]]
    /\ Goto(p, "s_totals")
    /\ UNCHANGED <<db, lock, tx, clock, acked>>

\* the first SELECT: totals over donations, count of charities
StatsTotals(p) ==
    /\ pc[p] = "s_totals"
    /\ loc' = [loc EXCEPT ![p].row =
                 [id |-> 0,
                  total_raised |-> SumAmountUsd(View(p).donations),
                  total_charities |-> Len(View(p).charities),
                  total_donations |-> Len(View(p).donations)]]
    /\ Goto(p, "s_top")
    /\ UNCHANGED <<db, lock, tx, clock, acked>>

\* the second SELECT (its own statement, no transaction spans the two), then
\* the returned dict
StatsResult(totals, top_charity) ==
    [total_raised_usd |-> Round2(totals.total_raised),
     total_charities |-> totals.total_charities,
     total_donations |-> totals.total_donations,
     top_charity |-> IF Found(top_charity)
                     THEN [id |-> top_charity.id, name |-> top_charity.name,
                           raised_usd |-> Round2(top_charity.raised_usd)]
                     ELSE NoRow]

StatsTop(p) ==
    /\ pc[p] = "s_top"
    /\ \E top_charity \in TopCharityRows(View(p)) :
          Done(p, Ok(StatsResult(loc[p].row, top_charity)))
    /\ UNCHANGED <<db, lock, tx, loc, clock, acked>>

\* ---------------------------------------------------------------- get_charities
ListCall(p, category, sort_by) ==
    /\ pc[p] = "idle"
    /\ loc' = [loc EXCEPT ![p] = [NoArgs EXCEPT !.op = "list", !.category = category,
                                                !.sort_by = sort_by]]
    /\ Goto(p, "g_select")
    /\ UNCHANGED <<db, lock, tx, clock, acked>>

\* `if category:` an empty or missing category means no filter
ListSelect(p) ==
    /\ pc[p] = "g_select"
    /\ IF loc[p].category # "" /\ ~ValidCategory(loc[p].category)
       THEN Done(p, Raise("category"))
       ELSE \E rows \in OrderByDesc(IF loc[p].category # ""
                                   THEN WhereCategory(View(p).charities, loc[p].category)
                                   ELSE View(p).charities,
                                   loc[p].sort_by) :
               Done(p, Ok([id |-> 0, rows |-> rows]))
    /\ UNCHANGED <<db, lock, tx, loc, clock, acked>>

\* ---------------------------------------------------------------- generate_receipt
ReceiptCall(p, donation_id) ==
    /\ pc[p] = "idle"
    /\ loc' = [loc EXCEPT ![p] = [NoArgs EXCEPT !.op = "receipt", !.id = donation_id]]
    /\ Goto(p, "rc_donation")
    /\ UNCHANGED <<db, lock, tx, clock, acked>>

ReceiptDonation(p) ==
    /\ pc[p] = "rc_donation"
    /\ LET donation == SelectDonation(View(p), loc[p].id)
       IN  IF ~Found(donation)
           THEN Done(p, Raise("not found")) /\ UNCHANGED loc
           ELSE Goto(p, "rc_charity") /\ loc' = [loc EXCEPT ![p].row = donation]
    /\ UNCHANGED <<db, lock, tx, clock, acked>>

\* SELECT name FROM charities WHERE id = donation.charity_id, then the text
ReceiptCharity(p) ==
    /\ pc[p] = "rc_charity"
    /\ LET donation == loc[p].row
           charity == SelectCharity(View(p), donation.charity_id)
       IN  Done(p, Ok([id |-> loc[p].id,
                       donor |-> donation.donor,
                       charity |-> charity.name,
                       amount |-> Round2(donation.amount_usd),
                       date |-> donation.ts,
                       message |-> IF donation.message = "" THEN "N/A"
                                   ELSE donation.message]))
    /\ UNCHANGED <<db, lock, tx, loc, clock, acked>>

\* ---------------------------------------------------------------- runtime
\* the runtime finalizes the connection object of an ended operation once
\* nothing refers to it (frame and traceback released): sqlite3_close
Collect(p) ==
    /\ pc[p] = "done"
    /\ conn[p] = "open"
    /\ conn' = [conn EXCEPT ![p] = "closed"]
    /\ UNCHANGED <<db, lock, tx, pc, loc, ret, clock, acked>>

\* ---------------------------------------------------------------- Next
Register(p) ==
    \E name \in Names, category \in CategoryInputs,
       description \in Descriptions, goal_usd \in Goals :
        RegisterCall(p, name, category, description, goal_usd)

Donate(p) ==
    \E charity_id \in CharityIds(db) \cup {BadId}, donor \in Donors,
       amount_usd \in Amounts, message \in Messages :
        DonateCall(p, charity_id, donor, amount_usd, message)

Verify(p) ==
    \E charity_id \in CharityIds(db) \cup {BadId} : VerifyCall(p, charity_id)

Next ==
    \E p \in Procs :
        \/ Register(p)
        \/ RegisterInsert(p)
        \/ RegisterCommit(p)
        \/ Donate(p)
        \/ DonateSelect(p)
        \/ DonateInsert(p)
        \/ DonateUpdate(p)
        \/ DonateCommit(p)
        \/ Verify(p)
        \/ VerifyUpdate(p)
        \/ VerifyCommit(p)
        \/ VerifySelect(p)
        \/ Busy(p)
        \/ Crash(p)
        \/ Finish(p)

Spec == Init /\ [][Next]_vars

\* ---------------------------------------------------------------- readers
\* One reading caller next to the writing callers: the queries run statement
\* by statement while register_charity, donate and verify_charity go on.
Reader == NumProcs
Writers == Procs \ {Reader}

\* category and sort arguments of the list command; "" is no --category
CategoryFilters == {"", "education", "animals", "sports"}
SortInputs == {"raised", "created"}

Stats(p) == StatsCall(p)

List(p) ==
    \E category \in CategoryFilters, sort_by \in SortInputs : ListCall(p, category, sort_by)

Receipt(p) ==
    \E donation_id \in DonationIds(db) \cup {BadId} : ReceiptCall(p, donation_id)

NextRead ==
    \/ \E p \in Writers :
          \/ Register(p)
          \/ RegisterInsert(p)
          \/ RegisterCommit(p)
          \/ Donate(p)
          \/ DonateSelect(p)
          \/ DonateInsert(p)
          \/ DonateUpdate(p)
          \/ DonateCommit(p)
          \/ Verify(p)
          \/ VerifyUpdate(p)
          \/ VerifyCommit(p)
          \/ VerifySelect(p)
    \/ \E p \in {Reader} :
          \/ Stats(p)
          \/ StatsTotals(p)
          \/ StatsTop(p)
          \/ List(p)
          \/ ListSelect(p)
          \/ Receipt(p)
          \/ ReceiptDonation(p)
          \/ ReceiptCharity(p)
    \/ \E p \in Procs :
          \/ Crash(p)
          \/ Finish(p)
          \/ Collect(p)

SpecRead == Init /\ [][NextRead]_vars

\* ---------------------------------------------------------------- queries on a store at rest
\* The stores that finished register_charity and donate calls leave behind:
\* charities of two categories created at instants 0..MaxStamp (two may share
\* an instant, and a later row may carry the earlier instant, utcnow() being
\* read before the INSERT), and donations to them. Both processes then run
\* get_stats and get_charities, and nothing writes.
QueryCategories == {"education", "animals"}
QueryAmounts == 1..MaxAmount

RECURSIVE StoreOfCharities(_)
StoreOfCharities(regs) ==
    IF regs = <<>> THEN EmptyDb
    ELSE LET n == Len(regs)
         IN  InsertCharity(StoreOfCharities(SubSeq(regs, 1, n - 1)),
                           NewCharity([NoArgs EXCEPT !.id = n,
                                                     !.name = "Books for All",
                                                     !.category = regs[n][1],
                                                     !.description = "...",
                                                     !.goal_usd = 1000,
                                                     !.now = regs[n][2]]))

RECURSIVE StoreOfDonations(_, _)
StoreOfDonations(d, gifts) ==
    IF gifts = <<>> THEN d
    ELSE LET n == Len(gifts)
             a == [NoArgs EXCEPT !.id = n, !.charity_id = gifts[n][1],
                                 !.donor = "Alice", !.amount_usd = gifts[n][2],
                                 !.now = MaxStamp]
         IN  UpdateRaised(InsertDonation(StoreOfDonations(d, SubSeq(gifts, 1, n - 1)),
                                         NewDonation(a)),
                          a.charity_id, a.amount_usd)

QueryStores ==
    UNION {{StoreOfDonations(StoreOfCharities(regs), gifts) :
              gifts \in UNION {[1..k -> (1..Len(regs)) \X QueryAmounts] :
                                 k \in 0..MaxDonations}} :
           regs \in UNION {[1..n -> QueryCategories \X (0..MaxStamp)] :
                             n \in 0..MaxCharities}}

\* the ledger of the donations of a store at rest
LedgerOf(d) ==
    [c \in 1..MaxCharities |->
        LET rows == SelectSeq(d.donations, LAMBDA r : r.charity_id = c)
        IN  [n |-> Len(rows), sum |-> SumAmountUsd(rows)]]

InitQuery ==
    /\ db \in QueryStores
    /\ lock = None
    /\ tx = [p \in Procs |-> NoTx]
    /\ pc = [p \in Procs |-> "idle"]
    /\ loc = [p \in Procs |-> NoArgs]
    /\ ret = [p \in Procs |-> NoRet]
    /\ clock = MaxStamp
    /\ acked = LedgerOf(db)
    /\ conn = [p \in Procs |-> "none"]

NextQuery ==
    \E p \in Procs :
        \/ Stats(p)
        \/ StatsTotals(p)
        \/ StatsTop(p)
        \/ List(p)
        \/ ListSelect(p)
        \/ Finish(p)

SpecQuery == InitQuery /\ [][NextQuery]_vars

\* ================================================================ claims
\* what the committed tables say about a charity
Raised(d, cid) == SelectCharity(d, cid).raised_usd
DonationsTo(d, cid) == {i \in DOMAIN d.donations : d.donations[i].charity_id = cid}
RECURSIVE AmountSum(_, _)
AmountSum(d, is) ==
    IF is = {} THEN 0
    ELSE LET i == CHOOSE j \in is : TRUE
         IN  d.donations[i].amount_usd + AmountSum(d, is \ {i})
Donated(d, cid) == AmountSum(d, DonationsTo(d, cid))
\* the sum of raised_usd over all charities of d
SumRaisedUsd(d) == AmountSum([donations |->
                                 [i \in DOMAIN d.charities |->
                                     [amount_usd |-> d.charities[i].raised_usd]]],
                             DOMAIN d.charities)
\* the categories of all rows, committed or pending
CategoriesClosed ==
    /\ \A i \in DOMAIN db.charities : db.charities[i].category \in CATEGORIES
    /\ \A p \in Procs : \A i \in DOMAIN tx[p].charities :
          tx[p].charities[i].category \in CATEGORIES
Succeeded(p, o) == pc[p] = "done" /\ loc[p].op = o /\ ret[p].err = ""
Failed(p, o, kind) == pc[p] = "done" /\ loc[p].op = o /\ ret[p].err = kind

\* C1: in every reachable state each charity's raised_usd equals the sum of
\* amount_usd over the donation records that reference the charity.
RaisedEqualsDonations ==
    \A c \in CharityIds(db) : Raised(db, c) = Donated(db, c)

\* two charities, one of them with two donations that do not cancel
RaisedEqualsDonationsWitness ==
    /\ Len(db.charities) = 2
    /\ \E c \in CharityIds(db) :
         Cardinality(DonationsTo(db, c)) = 2 /\ Raised(db, c) # 0

\* C2: the commit of a successful donate(c, donor, amt, message) leaves c's
\* raised_usd at its value before plus amt and adds exactly one donation record,
\* for c and amt, under the id returned to the caller.
DonateAddsAmountAndRecord ==
    [][\A p \in Procs :
        (pc[p] = "d_commit" /\ pc'[p] = "done") =>
            LET c == loc[p].charity_id
                n == Len(db.donations)
            IN  /\ ret'[p].err = ""
                /\ Raised(db', c) = Raised(db, c) + loc[p].amount_usd
                /\ Len(db'.donations) = n + 1
                /\ SubSeq(db'.donations, 1, n) = db.donations
                /\ db'.donations[n + 1].charity_id = c
                /\ db'.donations[n + 1].amount_usd = loc[p].amount_usd
                /\ db'.donations[n + 1].id = ret'[p].val.id
                /\ ret'[p].val.id \notin DonationIds(db)]_vars

\* a donation has just succeeded on a charity that had raised something before
DonateAddsAmountAndRecordWitness ==
    \E p \in Procs :
        /\ Succeeded(p, "donate")
        /\ loc[p].amount_usd = 1
        /\ Raised(db, loc[p].charity_id) = 2
        /\ db.donations[Len(db.donations)].id = ret[p].val.id

DonateUnknownCharityFails ==
    [][\A p \in Procs :
        /\ (pc[p] = "idle" /\ pc'[p] = "d_select") => db' = db
        /\ (/\ pc[p] = "d_select"
            /\ loc[p].charity_id \notin CharityIds(db)
            /\ pc'[p] \notin {"d_select", "idle"})
           => /\ pc'[p] = "done"
              /\ ret'[p].err = "not found"
              /\ db' = db /\ tx' = tx /\ lock' = lock]_vars

DonateUnknownCharityFailsWitness ==
    \E p \in Procs :
        /\ Failed(p, "donate", "not found")
        /\ loc[p].charity_id \notin CharityIds(db)
        /\ Len(db.charities) > 0
        /\ Len(db.donations) > 0

\* C5: register_charity with a category outside the fixed set fails with the
\* category error and adds no charity; every charity of every reachable state
\* has a category of the fixed set.
RegisterRejectsUnknownCategory ==
    /\ []CategoriesClosed
    /\ [][\A p \in Procs :
            (/\ pc[p] = "idle"
             /\ pc'[p] # "idle"
             /\ loc'[p].op = "register"
             /\ loc'[p].category \notin CATEGORIES)
            => /\ pc'[p] = "done"
               /\ ret'[p].err = "category"
               /\ db' = db /\ tx' = tx /\ lock' = lock]_vars

RegisterRejectsUnknownCategoryWitness ==
    \E p \in Procs :
        /\ Failed(p, "register", "category")
        /\ loc[p].category = "sports"
        /\ Len(db.charities) > 0

\* C6: no increment is lost when callers donate to one charity concurrently:
\* the charity's raised_usd is the sum of the amounts of all donate calls whose
\* commit succeeded, and it has one donation record per such call.
NoLostDonation ==
    \A c \in CharityIds(db) :
        /\ Raised(db, c) = acked[c].sum
        /\ Cardinality(DonationsTo(db, c)) = acked[c].n

\* two donations to the same charity overlapped and both succeeded
NoLostDonationWitness ==
    \E p \in Procs : \E q \in Procs \ {p} :
        /\ Succeeded(p, "donate") /\ Succeeded(q, "donate")
        /\ loc[p].charity_id = loc[q].charity_id
        /\ loc[q].raced
        /\ loc[p].amount_usd = 1 /\ loc[q].amount_usd = 1
        /\ acked[loc[p].charity_id].n = 2

\* C7: verify_charity on a charity that is already verified raises no error,
\* returns the charity with verified = true and leaves the store as it was.
VerifyIdempotent ==
    [][\A p \in Procs :
        LET c == loc[p].charity_id
        IN  /\ (/\ pc[p] = "v_commit" /\ pc'[p] = "v_select"
                /\ c \in CharityIds(db) /\ SelectCharity(db, c).verified)
               => db' = db
            /\ (/\ pc[p] = "v_select" /\ pc'[p] = "done"
                /\ c \in CharityIds(db))
               => /\ ret'[p].err = ""
                  /\ ret'[p].val.id = c
                  /\ ret'[p].val.verified
                  /\ db' = db]_vars

\* both callers have verified the same charity: one of them was the second
VerifyIdempotentWitness ==
    \E p \in Procs : \E q \in Procs \ {p} :
        /\ Succeeded(p, "verify") /\ Succeeded(q, "verify")
        /\ loc[p].charity_id = loc[q].charity_id
        /\ ret[p].val.verified /\ ret[q].val.verified

\* C8: a charity is registered with verified = false, and a charity that is
\* verified in some state is verified in every later state.
VerifiedOneWay ==
    [][/\ \A i \in DOMAIN db.charities :
            db.charities[i].verified =>
                /\ i \in DOMAIN db'.charities
                /\ db'.charities[i].id = db.charities[i].id
                /\ db'.charities[i].verified
       /\ \A i \in DOMAIN db'.charities :
            i \notin DOMAIN db.charities => ~db'.charities[i].verified]_vars

\* a donation was committed to a charity after a verify call had returned it
VerifiedOneWayWitness ==
    \E p \in Procs : \E q \in Procs \ {p} :
        /\ Succeeded(p, "verify") /\ Succeeded(q, "donate")
        /\ loc[p].charity_id = loc[q].charity_id
        /\ ret[p].val.raised_usd # Raised(db, loc[p].charity_id)
        /\ SelectCharity(db, loc[p].charity_id).verified

\* C9: verify_charity with an id that matches no charity fails with the
\* "not found" error and no step of it changes the committed tables, although
\* the update is issued and committed before the existence check.
VerifyUnknownCharityFails ==
    [][\A p \in Procs :
        (/\ loc[p].op = "verify"
         /\ loc[p].charity_id \notin CharityIds(db)
         /\ pc'[p] \notin {pc[p], "idle"})
        => /\ db' = db
           /\ pc[p] = "v_select" => (pc'[p] = "done" /\ ret'[p].err = "not found")]_vars

VerifyUnknownCharityFailsWitness ==
    \E p \in Procs :
        /\ Failed(p, "verify", "not found")
        /\ loc[p].charity_id \notin CharityIds(db)
        /\ Len(db.charities) > 0

\* C10: every donation record has a strictly positive amount_usd (donate
\* rejects a zero or negative amount), so no raised_usd is ever negative.
DonationAmountsPositive ==
    /\ \A i \in DOMAIN db.donations : db.donations[i].amount_usd > 0
    /\ \A i \in DOMAIN db.charities : db.charities[i].raised_usd >= 0

\* C11: the charity_id of every donation record, committed or pending, is the
\* id of a charity of the same tables, also while donate runs next to other
\* operations.
ReferentialIntegrity ==
    /\ \A i \in DOMAIN db.donations : db.donations[i].charity_id \in CharityIds(db)
    /\ \A p \in Procs : \A i \in DOMAIN tx[p].donations :
          tx[p].donations[i].charity_id \in CharityIds(Pages(tx[p]))

\* a donation was committed while another caller is inside a write of its own
ReferentialIntegrityWitness ==
    \E p \in Procs : \E q \in Procs \ {p} :
        /\ Succeeded(p, "donate")
        /\ db.donations[Len(db.donations)].id = ret[p].val.id
        /\ pc[q] \in {"r_commit", "v_commit", "d_update"}

\* C12: the commit of a successful register_charity adds exactly one charity,
\* under an id no charity had, with raised_usd = 0 and verified = false and the
\* fields given, whether or not the name is already in use; the charities and
\* donations that existed are unchanged.
RegisterAddsOneCharity ==
    [][\A p \in Procs :
        (pc[p] = "r_commit" /\ pc'[p] = "done") =>
            LET n == Len(db.charities)
                new == db'.charities[n + 1]
            IN  /\ ret'[p].err = ""
                /\ Len(db'.charities) = n + 1
                /\ SubSeq(db'.charities, 1, n) = db.charities
                /\ db'.donations = db.donations
                /\ new.id \notin CharityIds(db)
                /\ new.raised_usd = 0
                /\ new.verified = FALSE
                /\ new.name = loc[p].name
                /\ new.category = loc[p].category
                /\ new.description = loc[p].description
                /\ new.goal_usd = loc[p].goal_usd
                /\ new.created_at = loc[p].now
                /\ ret'[p].val = new]_vars

\* a second charity has just been registered under the name of the first
RegisterAddsOneCharityWitness ==
    \E p \in Procs :
        /\ Succeeded(p, "register")
        /\ Len(db.charities) = 2
        /\ db.charities[2].id = ret[p].val.id
        /\ db.charities[1].name = db.charities[2].name
        /\ db.charities[1].id # db.charities[2].id

\* C20: no step removes or changes a donation record or removes a charity or
\* changes a charity's id, name, category, description, goal_usd or created_at;
\* the commit of donate(c, ...) changes only c's raised_usd and adds one
\* donation record, the commit of verify_charity(c) changes only c's verified.
OperationsChangeOnlyTheirTarget ==
    [][/\ Len(db'.donations) >= Len(db.donations)
       /\ SubSeq(db'.donations, 1, Len(db.donations)) = db.donations
       /\ Len(db'.charities) >= Len(db.charities)
       /\ \A i \in DOMAIN db.charities :
            db'.charities[i] = [db.charities[i] EXCEPT
                                  !.raised_usd = db'.charities[i].raised_usd,
                                  !.verified = db'.charities[i].verified]
       /\ \A p \in Procs :
            /\ (pc[p] = "d_commit" /\ pc'[p] = "done") =>
                 /\ Len(db'.donations) = Len(db.donations) + 1
                 /\ Len(db'.charities) = Len(db.charities)
                 /\ \A i \in DOMAIN db.charities :
                      db'.charities[i] =
                        IF db.charities[i].id = loc[p].charity_id
                        THEN [db.charities[i] EXCEPT
                                !.raised_usd = db'.charities[i].raised_usd]
                        ELSE db.charities[i]
            /\ (pc[p] = "v_commit" /\ pc'[p] = "v_select") =>
                 /\ db'.donations = db.donations
                 /\ Len(db'.charities) = Len(db.charities)
                 /\ \A i \in DOMAIN db.charities :
                      db'.charities[i] =
                        IF db.charities[i].id = loc[p].charity_id
                        THEN [db.charities[i] EXCEPT
                                !.verified = db'.charities[i].verified]
                        ELSE db.charities[i]]_vars

\* one of two charities has been verified and has donations, the other is
\* still unverified
OperationsChangeOnlyTheirTargetWitness ==
    \E p \in Procs :
        /\ Succeeded(p, "verify")
        /\ Len(db.charities) = 2
        /\ Len(db.donations) = 2
        /\ \E i, j \in DOMAIN db.charities :
             /\ db.charities[i].id = loc[p].charity_id
             /\ db.charities[i].verified /\ db.charities[i].raised_usd # 0
             /\ ~db.charities[j].verified

\* C13: get_stats on a store with no charities and no donations returns
\* total_raised = 0, total_charities = 0, total_donations = 0 and
\* top_charity = none, and raises no error.
StatsOfEmptyStore ==
    (pc[Reader] = "done" /\ loc[Reader].op = "stats" /\ db = EmptyDb)
    => /\ ret[Reader].err = ""
       /\ ret[Reader].val = [total_raised_usd |-> 0, total_charities |-> 0,
                             total_donations |-> 0, top_charity |-> NoRow]

StatsOfEmptyStoreWitness ==
    /\ Succeeded(Reader, "stats")
    /\ db = EmptyDb
    /\ ret[Reader].val.total_charities = 0
    /\ ~Found(ret[Reader].val.top_charity)

\* C14: the totals statement of get_stats reads total_raised = the sum of
\* amount_usd over all donation records (in cents), total_donations = the number
\* of donation records and total_charities = the number of charities of the
\* committed store, total_raised being also the sum of raised_usd over all
\* charities; get_stats returns these totals, so in a store that no operation
\* changes meanwhile the result equals the sums of the store.
StatsTotalsAreSums ==
    [][/\ (pc[Reader] = "s_totals" /\ pc'[Reader] = "s_top") =>
            /\ loc'[Reader].row.total_raised = AmountSum(db, DOMAIN db.donations)
            /\ loc'[Reader].row.total_raised = SumRaisedUsd(db)
            /\ loc'[Reader].row.total_donations = Len(db.donations)
            /\ loc'[Reader].row.total_charities = Len(db.charities)
       /\ (pc[Reader] = "s_top" /\ pc'[Reader] = "done") =>
            /\ ret'[Reader].err = ""
            /\ ret'[Reader].val.total_raised_usd = loc[Reader].row.total_raised
            /\ ret'[Reader].val.total_donations = loc[Reader].row.total_donations
            /\ ret'[Reader].val.total_charities = loc[Reader].row.total_charities
            /\ (/\ loc[Reader].row.total_donations = Len(db.donations)
                /\ loc[Reader].row.total_charities = Len(db.charities))
               => /\ ret'[Reader].val.total_raised_usd = AmountSum(db, DOMAIN db.donations)
                  /\ ret'[Reader].val.total_raised_usd = SumRaisedUsd(db)]_vars

\* the result of get_stats on a store of two charities and two donations
\* that do not cancel
StatsTotalsAreSumsWitness ==
    /\ Succeeded(Reader, "stats")
    /\ ret[Reader].val.total_donations = 2
    /\ ret[Reader].val.total_charities = 2
    /\ ret[Reader].val.total_raised_usd = 2
    /\ Len(db.donations) = 2

\* C15: the top_charity statement of get_stats yields none exactly when the
\* store has no charity; otherwise it yields the id, name and raised_usd of a
\* charity of the store whose raised_usd no charity exceeds (raised_usd = 0
\* when nothing was donated).
StatsTopIsMaximal ==
    [][(pc[Reader] = "s_top" /\ pc'[Reader] = "done") =>
        LET top == ret'[Reader].val.top_charity
        IN  /\ Found(top) <=> db.charities # <<>>
            /\ Found(top) =>
                 /\ \E i \in DOMAIN db.charities :
                      /\ db.charities[i].id = top.id
                      /\ db.charities[i].name = top.name
                      /\ db.charities[i].raised_usd = top.raised_usd
                 /\ \A j \in DOMAIN db.charities :
                      db.charities[j].raised_usd <= top.raised_usd]_vars

\* the second of two charities is on top, with one donation against the
\* first's none or negative total
StatsTopIsMaximalWitness ==
    /\ Succeeded(Reader, "stats")
    /\ Len(db.charities) = 2
    /\ Found(ret[Reader].val.top_charity)
    /\ ret[Reader].val.top_charity.id = db.charities[2].id
    /\ ret[Reader].val.top_charity.raised_usd = 1
    /\ db.charities[2].raised_usd = 1
    /\ db.charities[1].raised_usd < 1

ListIsFilteredAndSorted ==
    \A p \in Procs :
        (/\ pc[p] = "done"
         /\ loc[p].op = "list"
         /\ loc[p].category \in {""} \cup CATEGORIES)
        => LET category == loc[p].category
               sort_by == loc[p].sort_by
               rows == ret[p].val.rows
               matching == {i \in DOMAIN db.charities :
                               category = "" \/ db.charities[i].category = category}
           IN  /\ ret[p].err = ""
               /\ Len(rows) = Cardinality(matching)
               /\ \A i \in matching : \E k \in DOMAIN rows : rows[k] = db.charities[i]
               /\ \A k \in DOMAIN rows : \E i \in matching : rows[k] = db.charities[i]
               /\ sort_by = "raised" =>
                    \A k \in 1..(Len(rows) - 1) : rows[k].raised_usd >= rows[k + 1].raised_usd
               /\ sort_by = "created" =>
                    \A k \in 1..(Len(rows) - 1) : rows[k].created_at >= rows[k + 1].created_at

\* two answers on one store of two charities: by creation time, where the
\* later row of the table comes first, and the empty answer for a category no
\* charity has
ListIsFilteredAndSortedWitness ==
    /\ Len(db.charities) = 2
    /\ db.charities[1].raised_usd > db.charities[2].raised_usd
    /\ db.charities[1].created_at < db.charities[2].created_at
    /\ Succeeded(1, "list")
    /\ loc[1].category = ""
    /\ loc[1].sort_by = "created"
    /\ ret[1].val.rows = <<db.charities[2], db.charities[1]>>
    /\ Succeeded(2, "list")
    /\ loc[2].category = "animals"
    /\ ret[2].val.rows = <<>>

\* C18: a get_stats call that runs concurrently with donate or
\* register_charity returns totals and a top_charity taken from one single
\* committed state: never total_charities = 0 together with a top_charity, and,
\* all amounts being positive, never total_raised below top_charity.raised_usd.
StatsIsOneSnapshot ==
    Succeeded(Reader, "stats") =>
        LET val == ret[Reader].val
        IN  /\ val.total_charities = 0 => ~Found(val.top_charity)
            /\ (/\ Found(val.top_charity)
                /\ \A i \in DOMAIN db.donations : db.donations[i].amount_usd > 0)
               => val.total_raised_usd >= val.top_charity.raised_usd

\* C19: once a public operation has ended, by return or by raise, the
\* connection it opened is closed and no transaction or lock of the operation
\* remains open.
ConnectionReleasedAtExit ==
    \A p \in Procs :
        pc[p] = "done" => /\ conn[p] # "open"
                          /\ ~tx[p].open
                          /\ lock # p

====
